---- MODULE Spec2Model ----
(***************************************************************************)
(* The spatial-semantic-pointer observation wrappers of gym_minigrid        *)
(* (wrappers.py): SSPWrapper (object presence), SSPWrapper2 (position and   *)
(* heading), SSPGoalWrapper (goal similarity) and SSPSpace; FlatObsWrapper  *)
(* and ReseedWrapper of the same file; EmptyGoalEnv (envs/emptygoal.py).    *)
(*                                                                         *)
(* Vectors are symbolic.  A superposition (vector sum) is a bag of its      *)
(* summands, the zero vector is the empty bag, a bound pair is a record of  *)
(* its two factors, and X**a * Y**b is the pair <<a, b>>.  Real numbers     *)
(* that are not integers are kept scaled: the cell centres of line 459 by   *)
(* 2, the linspace samples of lines 449-450 by LinspaceNum - 1.             *)
(***************************************************************************)
EXTENDS Integers, Sequences, FiniteSets, Bags, TLC

VARIABLES
    phase,          \* "new" before the constructor ran, then "ready" or "failed"
    variant,        \* the wrapper class that was constructed
    img_shape,      \* self.img_shape[0:2]
    d,              \* self.d
    X, Y,           \* self.X, self.Y: the basis pair
    vocab,          \* self.vocab
    observation_space, \* self.observation_space.spaces["image"]
    delta,          \* self.delta
    band,           \* the extents of the offsets xi, yi summed into self.S_rec
    S_list_rec,     \* self.S_list_rec: the reconstruction table
    goal_position,  \* SSPGoalWrapper.goal_position
    width, height,  \* env.width, env.height
    grid,           \* env.grid.grid: the flat list of cells
    agent_pos,      \* env.agent_pos
    agent_dir,      \* env.agent_dir
    raw,            \* the observation the environment produced last
    call,           \* the wrapper method called last
    ret,            \* what that call returned or raised
    first,          \* a remembered earlier observation() of SSPWrapper2
    \* FlatObsWrapper
    flat_phase,     \* "new" before FlatObsWrapper.__init__ ran, then "ready"
    maxStrLen,      \* self.maxStrLen
    cachedStr,      \* self.cachedStr
    cachedArray,    \* self.cachedArray
    flat_call,      \* the last observation() call: its mission and outcome
    \* ReseedWrapper
    reseed_phase,   \* "new" before ReseedWrapper.__init__ ran, then "ready"
    seeds,          \* self.seeds
    seed_idx,       \* self.seed_idx
    start_idx,      \* the seed_idx the constructor was given
    env_seed,       \* the seed env.seed() was last called with
    episode_seeds,  \* the seed in force at each env.reset(), in call order
    reseed_call,    \* the wrapper method called last and its outcome
    \* EmptyGoalEnv
    env_phase,      \* "new" before EmptyGoalEnv.__init__ ran, then "ready" or "failed"
    size,           \* self.size
    switch_prob,    \* self.switch_prob, in hundredths
    use_ssp,        \* self.use_ssp
    agent_start_pos, \* self.agent_start_pos
    goal_loc_x,     \* self.goal_loc_x
    goal_loc_y,     \* self.goal_loc_y
    goal_locs,      \* self.goal_locs
    env_grid,       \* self.grid.grid of EmptyGoalEnv
    env_agent_pos,  \* self.agent_pos of EmptyGoalEnv
    env_mission,    \* self.mission of EmptyGoalEnv
    env_call        \* the method of EmptyGoalEnv called last

sspVars == <<phase, variant, img_shape, d, X, Y, vocab, observation_space, delta, band,
             S_list_rec, goal_position, width, height, grid, agent_pos,
             agent_dir, raw, call, ret, first>>
flatVars == <<flat_phase, maxStrLen, cachedStr, cachedArray, flat_call>>
reseedVars == <<reseed_phase, seeds, seed_idx, start_idx, env_seed, episode_seeds,
                reseed_call>>
goalEnvVars == <<env_phase, size, switch_prob, use_ssp, agent_start_pos, goal_loc_x,
                 goal_loc_y, goal_locs, env_grid, env_agent_pos, env_mission, env_call>>
otherVars == <<flatVars, reseedVars, goalEnvVars>>
notFlatVars == <<sspVars, reseedVars, goalEnvVars>>
notReseedVars == <<sspVars, flatVars, goalEnvVars>>
notGoalEnvVars == <<sspVars, flatVars, reseedVars>>
vars == <<sspVars, flatVars, reseedVars, goalEnvVars>>


----------------------------------------------------------------------------
(* Bounds of the model. *)

\* the encoder dimension d; supplied basis vectors have Dim or Dim + 1 entries
Dim == 2
\* delta ranges over 1..MaxDelta
MaxDelta == 2
\* the environment's grid holds at most MaxGoals goal cells
MaxGoals == 1

\* np.linspace(..., 50), lines 449-450
LinspaceNum == 50

Variants == {"SSPWrapper", "SSPWrapper2", "SSPGoalWrapper"}

\* object ids that occur in the observed images: unseen, empty, wall, floor, goal
ObjIds == {0, 1, 2, 3, 8}
\* env.observation_space['image'].shape[0:2]
ViewShapes == {<<2, 1>>, <<1, 3>>}
\* <<env.width, env.height>>
GridShapes == {<<2, 2>>, <<3, 2>>}
Missions == {"go to the goal", "reach the key"}
Dirs == 0 .. 3
AgentCells == {<<0, 0>>, <<1, 1>>}

----------------------------------------------------------------------------
(* Python values. *)

None == [kind |-> "None", v |-> <<>>]
PyList(s) == [kind |-> "list", v |-> s]
PyTuple(s) == [kind |-> "tuple", v |-> s]

\* bool(x) of None, a list or a tuple
Truthy(x) == x.kind # "None" /\ Len(x.v) > 0

\* the increasing sequence of the elements of a finite set of integers
RECURSIVE Sorted(_)
Sorted(S) ==
    IF S = {} THEN <<>>
    ELSE LET m == CHOOSE a \in S : \A b \in S : a <= b
         IN  <<m>> \o Sorted(S \ {m})

SeqMax(s) == CHOOSE a \in {s[k] : k \in DOMAIN s} : \A k \in DOMAIN s : s[k] <= a
SeqMin(s) == CHOOSE a \in {s[k] : k \in DOMAIN s} : \A k \in DOMAIN s : a <= s[k]

----------------------------------------------------------------------------
(* The reconstruction table, SSPWrapper.__init__ lines 448-470. *)

\* np.linspace(start, stop, num), every sample multiplied by num - 1
Linspace(start, stop, num) ==
    [k \in 1 .. num |-> (num - 1) * start + (k - 1) * (stop - start)]

\* xi of line 449
BandX(dl) == Linspace(0, dl, LinspaceNum)

\* yi of line 450: -(delta//2) .. delta//2
BandY(dl) == Linspace(-(dl \div 2), dl \div 2, LinspaceNum)

\* xi of line 459, doubled: np.arange(W - 0.5, 0, -1)*delta - (delta//2)
CellX(W, dl) == [c \in 1 .. W |-> (2 * W - 1 - 2 * (c - 1)) * dl - 2 * (dl \div 2)]

\* yi of line 460: np.arange(H//2, -H//2, -1)*delta; -H//2 is floor(-H/2)
CellY(H, dl) ==
    LET start == H \div 2
        stop  == -((H + 1) \div 2)
    IN  [r \in 1 .. (start - stop) |-> (start - (r - 1)) * dl]

\* positions of line 463: meshgrid(xi, yi) flattened row by row, so row k
\* (from 0) holds xi[k mod len(xi)] and yi[k div len(xi)]
Positions(xi, yi) ==
    [k \in 0 .. (Len(xi) * Len(yi) - 1) |->
        <<xi[(k % Len(xi)) + 1], yi[(k \div Len(xi)) + 1]>>]

\* S_list_rec of lines 464-470: row k is (S_rec * S_ids[k]).normalized(), and
\* reshape(len(xi), len(yi), d) puts row a*len(yi) + b at [a, b]
Table(shape, dl) ==
    LET xi  == CellX(shape[1], dl)
        yi  == CellY(shape[2], dl)
        pos == Positions(xi, yi)
    IN  [c \in (0 .. Len(xi) - 1) \X (0 .. Len(yi) - 1) |->
            [S_rec |-> dl, at |-> pos[c[1] * Len(yi) + c[2]]]]

----------------------------------------------------------------------------
(* Vectors, vocabularies and spaces. *)

\* a basis vector with n entries
Basis(axis, n) == [axis |-> axis, dim |-> n]

\* X or ssp.vector_generation.UnitaryVectors(d), lines 410-411 and 517-518;
\* a supplied dimension of 0 stands for None
BasisOr(axis, supplied, dd) ==
    IF supplied = 0 THEN Basis(axis, dd) ELSE Basis(axis, supplied)

\* the vocabulary of lines 413-421: the upper-cased object names (keyed here by
\* their ids), NULL and OPEN.  The colour names are populated too and never
\* read by observation().
ObjectVocab(dd) ==
    [dim |-> dd,
     keys |-> {<<"OBJECT", i>> : i \in ObjIds} \cup {<<"NULL", 0>>, <<"OPEN", 0>>}]

\* the vocabulary of lines 523-524
PoseVocab(dd) == [dim |-> dd, keys |-> {<<"POSITION", 0>>, <<"DIRECTION", 0>>}]

NoVocab == [dim |-> 0, keys |-> {}]

\* SSPSpace.__init__, lines 576-584: the dimension is that of basis[0]
SSPSpace(basis, radius) ==
    [kind |-> "SSPSpace", nbasis |-> Len(basis), dim |-> basis[1].dim,
     radius |-> radius]

\* the image space of the wrapped environment
BoxSpace == [kind |-> "Box", nbasis |-> 0, dim |-> 0, radius |-> 0]

\* np.vstack([self.X.v, self.Y.v]) of line 452 needs rows of one length
VstackRaises(x, y) == x.dim # y.dim

\* S_ids.reshape(len(xi), len(yi), d) of line 469 needs len(xi)*len(yi)*d
\* entries, and S_ids has len(xi)*len(yi) rows of len(X.v) entries
ReshapeRaises(x, dd) == x.dim # dd

Returned(obs) == [kind |-> "return", exc |-> "", obs |-> obs]
NoObs ==
    [mission |-> "",
     image |-> [type |-> "none", dim |-> 0, raw |-> <<>>, v |-> EmptyBag],
     goal_similarity |-> [present |-> FALSE, goal |-> <<>>, agent |-> <<>>]]
Raised(e) == [kind |-> "raise", exc |-> e, obs |-> NoObs]
NoCall == [kind |-> "none", exc |-> "", obs |-> NoObs]

NotRemembered ==
    [set |-> FALSE, pos |-> <<>>, dir |-> 0, raw |-> <<>>, image |-> NoObs.image]

----------------------------------------------------------------------------
(* The environment: a static grid, as minigrid's Grid keeps it. *)

\* the index of cell (i, j) in Grid.grid
GridIndex(W, i, j) == j * W + i

GridCells(shape) == (0 .. shape[1] - 1) \X (0 .. shape[2] - 1)

\* a W x H grid whose goal objects are at the cells of goals
GridOf(shape, goals) ==
    [k \in 1 .. (shape[1] * shape[2]) |->
        IF \E c \in goals : GridIndex(shape[1], c[1], c[2]) = k - 1
        THEN "Goal" ELSE "None"]

\* the cells of a grid that hold a goal
GoalCells(W, H, g) ==
    {c \in GridCells(<<W, H>>) : g[GridIndex(W, c[1], c[2]) + 1] = "Goal"}

\* the environments: a grid shape and the cells of its goals
Envs(shapes, maxGoals) ==
    UNION {{<<s, gs>> : gs \in {g \in SUBSET GridCells(s) : Cardinality(g) <= maxGoals}}
           : s \in shapes}

\* the images of one shape: an object id for every cell of the view
Images(shape, ids) == [GridCells(shape) -> ids]

----------------------------------------------------------------------------
(* Construction. *)

\* no SSP wrapper is constructed yet
InitSSP ==
    /\ phase = "new"
    /\ variant = "none"
    /\ img_shape = <<0, 0>>
    /\ d = 0
    /\ X = Basis("X", 0)
    /\ Y = Basis("Y", 0)
    /\ vocab = NoVocab
    /\ observation_space = BoxSpace
    /\ delta = 0
    /\ band = <<>>
    /\ S_list_rec = <<>>
    /\ goal_position = None
    /\ width = 0
    /\ height = 0
    /\ grid = <<>>
    /\ agent_pos = <<0, 0>>
    /\ agent_dir = 0
    /\ raw = NoObs
    /\ call = "none"
    /\ ret = NoCall
    /\ first = NotRemembered

\* the extent <<min, max>> of a sequence of samples
Extent(s) == <<SeqMin(s), SeqMax(s)>>

\* SSPWrapper.__init__ (lines 402-470), SSPWrapper2.__init__ (509-534) and
\* SSPGoalWrapper.__init__ (557-559) over an environment env, with d = Dim.
\* No line of them compares d with the basis vectors: the constructors with a
\* table raise where numpy refuses the shapes (lines 452 and 469), and
\* SSPWrapper2 has no such line.  A constructor that raises yields no wrapper.
\* A basis pair of two lengths reaches SSPWrapper2 only through nengo_ssp's
\* UniformSSPs (line 584), so the model gives SSPWrapper2 pairs of one length.
Construct(Vs, envs, views, dims, deltas) ==
    \E v \in Vs, env \in envs, view \in views, dx \in dims, dy \in dims,
       dl \in deltas :
        LET x == BasisOr("X", dx, Dim)
            y == BasisOr("Y", dy, Dim)
            table == v # "SSPWrapper2"
            raises == table /\ (VstackRaises(x, y) \/ ReshapeRaises(x, Dim))
        IN  /\ phase = "new"
            /\ table \/ x.dim = y.dim
            /\ call' = "construct"
            /\ width' = env[1][1]
            /\ height' = env[1][2]
            /\ grid' = GridOf(env[1], env[2])
            /\ IF raises
               THEN /\ phase' = "failed"
                    /\ ret' = Raised("ValueError")
                    /\ UNCHANGED <<variant, img_shape, d, X, Y, vocab,
                                   observation_space, delta, band, S_list_rec>>
               ELSE /\ phase' = "ready"
                    /\ ret' = Returned(NoObs)
                    /\ variant' = v
                    /\ img_shape' = view
                    /\ d' = Dim
                    /\ X' = x
                    /\ Y' = y
                    /\ vocab' = IF table THEN ObjectVocab(Dim) ELSE PoseVocab(Dim)
                    /\ observation_space' = SSPSpace(<<x, y>>, 1)
                    /\ delta' = IF table THEN dl ELSE 0
                    /\ band' = IF table
                               THEN <<Extent(BandX(dl)), Extent(BandY(dl))>>
                               ELSE <<>>
                    /\ S_list_rec' = IF table THEN Table(view, dl) ELSE <<>>
            /\ UNCHANGED <<goal_position, agent_pos, agent_dir, raw, first>>
            /\ UNCHANGED otherVars

----------------------------------------------------------------------------
(* SSPWrapper.observation, lines 472-504. *)

\* the W x H x 3 array of the environment; only img[:,:,0] is read
RawImage(img) == [type |-> "raw", dim |-> 0, raw |-> img, v |-> EmptyBag]
\* M.v: a vector of dd entries
Encoded(M, dd) == [type |-> "ssp", dim |-> dd, raw |-> <<>>, v |-> M]

\* np.unique(img[:,:,0]), line 487: the ids present, increasing
Unique(img) == Sorted({img[c] : c \in DOMAIN img})

\* the test of the loop that line 481 keeps in a comment: floors are encoded
InformativeKeepsFloor(i) == ~(i = 0 \/ i = 1)

\* the ids line 489 keeps: not unseen, not empty, not floor
Informative(i) == ~(i = 0 \/ i = 1 \/ i = 3)

\* np.delete(allobjs, np.where((allobjs==0)|(allobjs==1)|(allobjs==3))), line 489
Qualifying(allobjs) == SelectSeq(allobjs, Informative)

\* only the first cell that holds the id
WhereFirst(img, i) ==
    LET all == {c \in DOMAIN img : img[c] = i}
    IN  {c \in all : \A e \in all : c[1] < e[1] \/ (c[1] = e[1] /\ c[2] <= e[2])}

\* np.where(img[:,:,0]==i), line 492
Where(img, i) == {c \in DOMAIN img : img[c] = i}

\* np.sum(self.S_list_rec[idxs[0],idxs[1],:], axis=0), line 494
GatherSum(tbl, idxs) ==
    [e \in {tbl[c] : c \in idxs} |-> Cardinality({c \in idxs : tbl[c] = e})]

\* S.normalized(), line 495
Normalized(S) == [normalized |-> S]

\* the vocabulary key IDX_TO_OBJECT[obj].upper() of line 496
ObjectKey(i) == <<"OBJECT", i>>

\* S * self.vocab[...], line 496
Bind(key, S) == [sym |-> key, S |-> S]

\* the body of the loop, lines 491-496
BoundTerm(tbl, img, i) ==
    Bind(ObjectKey(i), Normalized(GatherSum(tbl, Where(img, i))))

\* the loop of lines 490-496 over what is left of allobjs
RECURSIVE Superpose(_, _, _, _)
Superpose(M, objs, tbl, img) ==
    IF objs = <<>> THEN M
    ELSE Superpose(M (+) SetToBag({BoundTerm(tbl, img, Head(objs))}),
                   Tail(objs), tbl, img)

\* the gathered rows normalised in place
TableNormalisedInPlace(tbl, img) ==
    [c \in DOMAIN tbl |->
        IF Informative(img[c]) THEN [tbl[c] EXCEPT !.S_rec = 0] ELSE tbl[c]]

\* the table after observation() read it: the indexing of line 494 copies the
\* rows, and nothing in lines 472-504 assigns to self.S_list_rec
TableAfterRead(tbl, img) == tbl

ObservationSSP(tbl, vc, dd, obs) ==
    LET img == obs.image.raw
        allobjs == Qualifying(Unique(img))
    IN  IF \E k \in DOMAIN allobjs : ObjectKey(allobjs[k]) \notin vc.keys
        THEN Raised("KeyError")
        ELSE Returned([mission |-> obs.mission,
                       image |-> Encoded(Superpose(EmptyBag, allobjs, tbl, img), dd),
                       goal_similarity |-> NoObs.goal_similarity])

----------------------------------------------------------------------------
(* SSPWrapper2.observation, lines 539-549. *)

\* minigrid's DIR_TO_VEC: right, down, left, up
DIR_TO_VEC == <<(<<1, 0>>), (<<0, 1>>), (<<-1, 0>>), (<<0, -1>>)>>

\* self.X**a * self.Y**b
XY(x, y, a, b) == [X |-> x, Y |-> y, a |-> a, b |-> b]

\* line 542
AgentSSP(x, y, pos) == XY(x, y, pos[1], pos[2])

\* line 543
DirSSP(x, y, dir) == XY(x, y, DIR_TO_VEC[dir + 1][1], DIR_TO_VEC[dir + 1][2])

\* binding and adding need operands of one length
PoseDimsAgree(x, y, vc) == x.dim = y.dim /\ x.dim = vc.dim

PoseImage(x, y, vc, agent, dir, obs) ==
    IF ~PoseDimsAgree(x, y, vc) THEN Raised("ValueError")
    ELSE IF ~({<<"POSITION", 0>>, <<"DIRECTION", 0>>} \subseteq vc.keys)
    THEN Raised("KeyError")
    ELSE Returned([mission |-> obs.mission,
                   image |-> Encoded(
                       SetToBag({Bind(<<"POSITION", 0>>, agent)})
                       (+) SetToBag({Bind(<<"DIRECTION", 0>>, DirSSP(x, y, dir))}),
                       vc.dim),
                   goal_similarity |-> NoObs.goal_similarity])

\* the agent's pointer taken from the image (the img = obs['image'] that line
\* 540 keeps in a comment): the exponent of X is the object id of cell (0, 0)
ObservationSSP2ReadsImage(x, y, vc, pos, dir, obs) ==
    PoseImage(x, y, vc, XY(x, y, obs.image.raw[<<0, 0>>], pos[2]), dir, obs)

\* lines 539-549
ObservationSSP2(x, y, vc, pos, dir, obs) ==
    PoseImage(x, y, vc, AgentSSP(x, y, pos), dir, obs)

----------------------------------------------------------------------------
(* SSPGoalWrapper, lines 552-573. *)

\* [x for x,y in enumerate(self.grid.grid) if isinstance(y,(Goal))], line 564
ScanGoals(g) == Sorted({k - 1 : k \in {j \in DOMAIN g : g[j] = "Goal"}})

\* (int(l[0]/self.height), l[0]%self.width), line 566
GoalTuple(idx, W, H) == PyTuple(<<idx \div H, idx % W>>)

\* lines 563-566
ResolveGoal(gp, g, W, H) ==
    IF ~Truthy(gp)
    THEN LET l == ScanGoals(g)
         IN  IF Len(l) >= 1 THEN GoalTuple(l[1], W, H) ELSE PyList(l)
    ELSE gp

\* SSPGoalWrapper.reset returns what env.reset() returned, line 567
GoalResetReturn(obs) == Returned(obs)

\* lines 569-573: the dict env.step() returned, with goal_similarity added
ObservationGoal(gp, pos, obs) ==
    IF gp.kind = "None" THEN Raised("TypeError")
    ELSE IF Len(gp.v) < 2 THEN Raised("IndexError")
    ELSE Returned([obs EXCEPT !.goal_similarity =
                       [present |-> TRUE, goal |-> <<gp.v[1], gp.v[2]>>, agent |-> pos]])

----------------------------------------------------------------------------
(* reset() and step(). *)

\* gym.core.ObservationWrapper: observation() applied to what the environment
\* returned; SSPGoalWrapper overrides observation() and inherits step()
Observation(v, tbl, x, y, vc, dd, gp, pos, dir, obs) ==
    CASE v = "SSPWrapper" -> ObservationSSP(tbl, vc, dd, obs)
      [] v = "SSPWrapper2" -> ObservationSSP2(x, y, vc, pos, dir, obs)
      [] v = "SSPGoalWrapper" -> ObservationGoal(gp, pos, obs)

\* history: one earlier call that returned, its pose, its raw image and the
\* image it returned
Remember(keep, r, pos, dir, img) ==
    IF keep /\ ~first.set /\ r.kind = "return"
    THEN [set |-> TRUE, pos |-> pos, dir |-> dir, raw |-> img,
          image |-> r.obs.image]
    ELSE first

\* reset(): the environment regenerates its observation over the same grid
Reset(ids, poses, ms, remember) ==
    \E img \in Images(img_shape, ids), p \in poses, m \in ms, keep \in remember :
        LET obs == [NoObs EXCEPT !.mission = m, !.image = RawImage(img)]
            gp  == IF variant = "SSPGoalWrapper"
                   THEN ResolveGoal(goal_position, grid, width, height)
                   ELSE goal_position
            r   == IF variant = "SSPGoalWrapper"
                   THEN GoalResetReturn(obs)
                   ELSE Observation(variant, S_list_rec, X, Y, vocab, d, gp,
                                    p[1], p[2], obs)
        IN  /\ phase = "ready"
            /\ raw' = obs
            /\ agent_pos' = p[1]
            /\ agent_dir' = p[2]
            /\ goal_position' = gp
            /\ S_list_rec' = IF variant = "SSPWrapper"
                             THEN TableAfterRead(S_list_rec, img) ELSE S_list_rec
            /\ call' = "reset"
            /\ ret' = r
            /\ first' = Remember(keep, r, p[1], p[2], img)
            /\ UNCHANGED <<phase, variant, img_shape, d, X, Y, vocab, observation_space,
                           delta, band, width, height, grid>>
            /\ UNCHANGED otherVars

\* step(action): the environment moves the agent and observes again; the
\* mission is that of the episode
Step(ids, poses, remember) ==
    \E img \in Images(img_shape, ids), p \in poses, keep \in remember :
        LET obs == [NoObs EXCEPT !.mission = raw.mission, !.image = RawImage(img)]
            r   == Observation(variant, S_list_rec, X, Y, vocab, d, goal_position,
                               p[1], p[2], obs)
        IN  /\ phase = "ready"
            /\ call \in {"reset", "step"}
            /\ raw' = obs
            /\ agent_pos' = p[1]
            /\ agent_dir' = p[2]
            /\ S_list_rec' = IF variant = "SSPWrapper"
                             THEN TableAfterRead(S_list_rec, img) ELSE S_list_rec
            /\ call' = "step"
            /\ ret' = r
            /\ first' = Remember(keep, r, p[1], p[2], img)
            /\ UNCHANGED <<phase, variant, img_shape, d, X, Y, vocab, observation_space,
                           delta, band, goal_position, width, height, grid>>
            /\ UNCHANGED otherVars

----------------------------------------------------------------------------
(* FlatObsWrapper, lines 252-301. *)

\* the constructor argument maxStrLen ranges over 1 .. MaxStrLen
MaxStrLen == 2
\* self.numCharCodes, line 262
numCharCodes == 27

\* a str value: the sequence of its characters
PyStr(s) == [kind |-> "str", v |-> s]

LowerCase ==
    <<"a", "b", "c", "d", "e", "f", "g", "h", "i", "j", "k", "l", "m",
      "n", "o", "p", "q", "r", "s", "t", "u", "v", "w", "x", "y", "z">>
UpperCase ==
    <<"A", "B", "C", "D", "E", "F", "G", "H", "I", "J", "K", "L", "M",
      "N", "O", "P", "Q", "R", "S", "T", "U", "V", "W", "X", "Y", "Z">>

\* the characters missions are made of: letters of both cases, the space and
\* a character that is neither
MissionChars == {"a", "A", " ", "1"}
\* the strings of at most n characters
Strings(n) == UNION {[1 .. k -> MissionChars] : k \in 0 .. n}
\* the missions: every string of at most MaxStrLen characters, and one that is
\* too long for every maxStrLen
FlatMissions == Strings(MaxStrLen) \cup {[k \in 1 .. MaxStrLen + 1 |-> "a"]}
\* image.flatten()
FlatImages == {<<1, 0, 0>>, <<8, 1, 0>>}

\* ord(ch) - ord('a') of a lower-case letter
LetterNo(ch) == (CHOOSE k \in 1 .. 26 : LowerCase[k] = ch) - 1
IsLower(ch) == \E k \in 1 .. 26 : LowerCase[k] = ch
\* str.lower(), line 284
LowerChar(ch) ==
    IF \E k \in 1 .. 26 : UpperCase[k] = ch
    THEN LowerCase[CHOOSE k \in 1 .. 26 : UpperCase[k] = ch]
    ELSE ch
Lower(s) == [k \in 1 .. Len(s) |-> LowerChar(s[k])]

\* np.zeros(shape=(maxStrLen, numCharCodes)), line 286
ZeroArray(n) == [i \in 1 .. n |-> [c \in 1 .. numCharCodes |-> 0]]
\* strArray.flatten()
RECURSIVE Flatten(_)
Flatten(a) == IF a = <<>> THEN <<>> ELSE Head(a) \o Flatten(Tail(a))

Unbound == -1
\* lines 289-292: the character's code; a character that is neither a letter
\* nor the space assigns nothing, so chNo keeps the previous iteration's value
ChNo(ch, chNo) ==
    IF IsLower(ch) THEN LetterNo(ch)
    ELSE IF ch = " " THEN LetterNo("z") + 1
    ELSE chNo

\* the loop of lines 288-294 from character idx on (idx counts from 1)
RECURSIVE EncodeFrom(_, _, _, _)
EncodeFrom(mission, idx, chNo, strArray) ==
    IF idx > Len(mission) THEN [kind |-> "ok", exc |-> "", strArray |-> strArray]
    ELSE LET no == ChNo(mission[idx], chNo)
         IN  IF no = Unbound
             THEN [kind |-> "raise", exc |-> "UnboundLocalError", strArray |-> <<>>]
             ELSE IF ~(no < numCharCodes)
             THEN [kind |-> "raise", exc |-> "AssertionError", strArray |-> <<>>]
             ELSE EncodeFrom(mission, idx + 1, no,
                             [strArray EXCEPT ![idx][no + 1] = 1])

\* lines 283-294: the encoding of a mission, computed from nothing
EncodeMission(mission, n) ==
    IF ~(Len(mission) <= n)
    THEN [kind |-> "raise", exc |-> "AssertionError", strArray |-> <<>>]
    ELSE EncodeFrom(Lower(mission), 1, Unbound, ZeroArray(n))

FlatReturned(arr) == [kind |-> "return", exc |-> "", arr |-> arr]
FlatRaised(e) == [kind |-> "raise", exc |-> e, arr |-> <<>>]
NoFlatCall ==
    [called |-> FALSE, mission |-> <<>>, image |-> <<>>, repeated |-> FALSE,
     recomputed |-> FALSE, ret |-> [kind |-> "none", exc |-> "", arr |-> <<>>]]

InitFlat ==
    /\ flat_phase = "new"
    /\ maxStrLen = 0
    /\ cachedStr = None
    /\ cachedArray = None
    /\ flat_call = NoFlatCall

\* FlatObsWrapper.__init__, lines 258-275
FlatConstruct(lens) ==
    \E n \in lens :
        /\ flat_phase = "new"
        /\ flat_phase' = "ready"
        /\ maxStrLen' = n
        /\ cachedStr' = None
        /\ cachedArray' = None
        /\ UNCHANGED flat_call
        /\ UNCHANGED notFlatVars

\* line 282: mission != self.cachedStr
CacheMiss(mission, cached) == PyStr(mission) # cached

\* FlatObsWrapper.observation, lines 277-301, as reset() and step() call it
FlatObservation(ms, imgs) ==
    \E mission \in ms, image \in imgs :
        LET miss == CacheMiss(mission, cachedStr)
            enc  == EncodeMission(mission, maxStrLen)
            fail == miss /\ enc.kind = "raise"
            arr  == IF miss THEN enc.strArray ELSE cachedArray.v
        IN  /\ flat_phase = "ready"
            /\ cachedStr' = IF miss /\ ~fail THEN PyStr(Lower(mission)) ELSE cachedStr
            /\ cachedArray' = IF miss /\ ~fail THEN PyList(enc.strArray) ELSE cachedArray
            /\ flat_call' =
                [called |-> TRUE, mission |-> mission, image |-> image,
                 repeated |-> flat_call.called /\ flat_call.mission = mission,
                 recomputed |-> miss /\ ~fail,
                 ret |-> IF fail THEN FlatRaised(enc.exc)
                         ELSE FlatReturned(image \o Flatten(arr))]
            /\ UNCHANGED <<flat_phase, maxStrLen>>
            /\ UNCHANGED notFlatVars

----------------------------------------------------------------------------
(* ReseedWrapper, lines 12-32. *)

\* the seed list has at most MaxSeeds entries
MaxSeeds == 3
\* at most MaxResets resets are followed
MaxResets == 4
SeedValues == {0, 7}
SeedLists == UNION {[1 .. k -> SeedValues] : k \in 0 .. MaxSeeds}
\* the seed_idx arguments: the indices of the longest list, one below, one above
SeedIdxs == -1 .. MaxSeeds

\* list[i] of Python: i counts from 0, a negative i counts from the end
IndexRaises(lst, i) == i >= Len(lst) \/ i < -Len(lst)
Index(lst, i) == IF i >= 0 THEN lst[i + 1] ELSE lst[Len(lst) + i + 1]

\* a % n of Python for n > 0: the result has the sign of n
PyMod(a, n) == a % n

NextSeedIdxNoWrap(idx, n) == idx + 1
\* line 26
NextSeedIdx(idx, n) == PyMod(idx + 1, n)

ReseedCall(op, exc) == [op |-> op, exc |-> exc]

InitReseed ==
    /\ reseed_phase = "new"
    /\ seeds = <<>>
    /\ seed_idx = 0
    /\ start_idx = 0
    /\ env_seed = None
    /\ episode_seeds = <<>>
    /\ reseed_call = ReseedCall("none", "")

\* ReseedWrapper.__init__, lines 19-22
ReseedConstruct(lists, idxs) ==
    \E s \in lists, i \in idxs :
        /\ reseed_phase = "new"
        /\ reseed_phase' = "ready"
        /\ seeds' = s
        /\ seed_idx' = i
        /\ start_idx' = i
        /\ reseed_call' = ReseedCall("construct", "")
        /\ UNCHANGED <<env_seed, episode_seeds>>
        /\ UNCHANGED notReseedVars

\* ReseedWrapper.reset, lines 24-28: the seed at seed_idx is read, the index
\* advances, the environment is seeded and then reset
ReseedReset ==
    /\ reseed_phase = "ready"
    /\ Len(episode_seeds) < MaxResets
    /\ IF IndexRaises(seeds, seed_idx)
       THEN /\ reseed_call' = ReseedCall("reset", "IndexError")
            /\ UNCHANGED <<seed_idx, env_seed, episode_seeds>>
       ELSE LET seed == Index(seeds, seed_idx)
            IN  /\ seed_idx' = NextSeedIdx(seed_idx, Len(seeds))
                /\ env_seed' = PyTuple(<<seed>>)
                /\ episode_seeds' = Append(episode_seeds, seed)
                /\ reseed_call' = ReseedCall("reset", "")
    /\ UNCHANGED <<reseed_phase, seeds, start_idx>>
    /\ UNCHANGED notReseedVars

\* ReseedWrapper.step, lines 30-32: the environment's step, passed through
ReseedStep ==
    /\ reseed_phase = "ready"
    /\ reseed_call' = ReseedCall("step", "")
    /\ UNCHANGED <<reseed_phase, seeds, seed_idx, start_idx, env_seed, episode_seeds>>
    /\ UNCHANGED notReseedVars

----------------------------------------------------------------------------
(* EmptyGoalEnv, envs/emptygoal.py lines 7-83. *)

\* size ranges over 2 .. MaxSize
MaxSize == 4
\* goal_locs is followed up to MaxGoalLocs entries
MaxGoalLocs == 2
Sizes == 2 .. MaxSize
\* switch_prob in hundredths: never, the default 0.01, always
SwitchProbs == {0, 1, 100}
\* np.random.rand() lies in [0, 1): its value in hundredths
RandDraws == {0, 1, 50, 99}
\* agent_start_pos: the default (1, 1), or None for a random start
StartPositions == {PyTuple(<<1, 1>>), None}

\* np.random.randint(low, high): an integer of low .. high - 1; ValueError
\* when there is none
RandInt(low, high) == low .. (high - 1)
RandIntRaises(low, high) == low >= high

\* Grid(width, height) followed by wall_rect(0, 0, width, height)
WallGrid(W, H) ==
    [k \in 1 .. (W * H) |->
        LET i == (k - 1) % W
            j == (k - 1) \div W
        IN  IF i = 0 \/ i = W - 1 \/ j = 0 \/ j = H - 1 THEN "Wall" ELSE "None"]
\* put_obj(obj, i, j)
PutObj(g, W, obj, i, j) == [g EXCEPT ![GridIndex(W, i, j) + 1] = obj]
\* place_agent(): a cell that holds no object
FreeCell(g, W, c) == g[GridIndex(W, c[1], c[2]) + 1] = "None"

\* line 66
Switches(r, prob) == r <= prob
\* line 66 not taken: goal_locs stays as it is
GoalLocsKept(locs, x, y) == locs
GoalLocsSwitchUnrecorded(locs, x, y) == locs
\* line 69
GoalLocsAfterSwitch(locs, x, y) == Append(locs, <<x, y>>)
\* lines 79-82: X**x * Y**y is kept as its exponents
MissionOf(ssp, x, y) ==
    IF ssp THEN [kind |-> "ssp", v |-> <<x, y>>]
    ELSE [kind |-> "array", v |-> <<x, y>>]
NoMission == [kind |-> "none", v |-> <<>>]

InitGoalEnv ==
    /\ env_phase = "new"
    /\ size = 0
    /\ switch_prob = 0
    /\ use_ssp = FALSE
    /\ agent_start_pos = None
    /\ goal_loc_x = 0
    /\ goal_loc_y = 0
    /\ goal_locs = <<>>
    /\ env_grid = <<>>
    /\ env_agent_pos = None
    /\ env_mission = NoMission
    /\ env_call = "none"

\* lines 72-77: the start position, or a cell place_agent() may choose
AgentCellsOf(g, sz, start) ==
    IF start # None THEN {start}
    ELSE {PyTuple(c) : c \in {e \in GridCells(<<sz, sz>>) : FreeCell(g, sz, e)}}

\* lines 59-82, once the goal is known to be at (gx, gy)
PlaceGoal(sz, ssp, start, gx, gy) ==
    LET g == PutObj(WallGrid(sz, sz), sz, "Goal", gx, gy)
    IN  /\ goal_loc_x' = gx
        /\ goal_loc_y' = gy
        /\ env_grid' = g
        /\ env_agent_pos' \in AgentCellsOf(g, sz, start)
        /\ env_mission' = MissionOf(ssp, gx, gy)

\* _gen_grid, lines 57-82, for the draw r of line 65
GenGrid(sz, prob, ssp, start, x, y, locs, r) ==
    IF Switches(r, prob)
    THEN /\ Len(locs) < MaxGoalLocs
         /\ \E nx \in RandInt(1, sz - 1), ny \in RandInt(1, sz - 1) :
                /\ goal_locs' = GoalLocsAfterSwitch(locs, nx, ny)
                /\ PlaceGoal(sz, ssp, start, nx, ny)
    ELSE /\ goal_locs' = GoalLocsKept(locs, x, y)
         /\ PlaceGoal(sz, ssp, start, x, y)

\* EmptyGoalEnv.__init__, lines 12-53: the first goal is drawn, and
\* MiniGridEnv.__init__ (line 38) resets the environment, which generates the
\* grid
EmptyGoalConstruct(sizes, probs, starts) ==
    \E sz \in sizes, prob \in probs, ssp \in BOOLEAN, start \in starts :
        /\ env_phase = "new"
        /\ env_call' = "construct"
        /\ IF RandIntRaises(1, sz - 1)
           THEN /\ env_phase' = "failed"
                /\ UNCHANGED <<size, switch_prob, use_ssp, agent_start_pos, goal_loc_x,
                               goal_loc_y, goal_locs, env_grid, env_agent_pos, env_mission>>
           ELSE /\ env_phase' = "ready"
                /\ size' = sz
                /\ switch_prob' = prob
                /\ use_ssp' = ssp
                /\ agent_start_pos' = start
                /\ \E x0 \in RandInt(1, sz - 1), y0 \in RandInt(1, sz - 1),
                      r \in RandDraws :
                       GenGrid(sz, prob, ssp, start, x0, y0,
                               GoalLocsAfterSwitch(<<>>, x0, y0), r)
        /\ UNCHANGED notGoalEnvVars

\* reset() of MiniGridEnv: the grid is generated anew
EmptyGoalReset ==
    /\ env_phase = "ready"
    /\ env_call' = "reset"
    /\ \E r \in RandDraws :
           GenGrid(size, switch_prob, use_ssp, agent_start_pos, goal_loc_x,
                   goal_loc_y, goal_locs, r)
    /\ UNCHANGED <<env_phase, size, switch_prob, use_ssp, agent_start_pos>>
    /\ UNCHANGED notGoalEnvVars

----------------------------------------------------------------------------
(* Specifications. *)

Init == InitSSP /\ InitFlat /\ InitReseed /\ InitGoalEnv

Poses(cells, dirs) == cells \X dirs
BasisDims == {0, Dim, Dim + 1}

\* every wrapper over every environment, with few observations
Next ==
    \/ Construct(Variants, Envs(GridShapes, MaxGoals), {<<2, 1>>}, BasisDims,
                 1 .. MaxDelta)
    \/ Reset({1, 8}, Poses({<<1, 1>>}, {0, 1}), Missions, {FALSE})
    \/ Step({1, 8}, Poses({<<1, 1>>}, {0, 1}), {FALSE})

Spec == Init /\ [][Next]_vars

\* SSPWrapper over every image of the observed object ids
NextPresence ==
    \/ Construct({"SSPWrapper"}, Envs({<<2, 2>>}, 0), ViewShapes, BasisDims,
                 1 .. MaxDelta)
    \/ Reset(ObjIds, Poses({<<1, 1>>}, {0}), Missions, {FALSE})
    \/ Step(ObjIds, Poses({<<1, 1>>}, {0}), {FALSE})

SpecPresence == Init /\ [][NextPresence]_vars

\* SSPWrapper2 over every pose of the agent
NextPose ==
    \/ Construct({"SSPWrapper2"}, Envs({<<2, 2>>}, 0), {<<2, 1>>}, BasisDims, {1})
    \/ Reset({1, 8}, Poses(AgentCells, Dirs), Missions, BOOLEAN)
    \/ Step({1, 8}, Poses(AgentCells, Dirs), BOOLEAN)

SpecPose == Init /\ [][NextPose]_vars

\* FlatObsWrapper over every mission of at most MaxStrLen characters
NextFlat ==
    \/ FlatConstruct(1 .. MaxStrLen)
    \/ FlatObservation(FlatMissions, FlatImages)

SpecFlat == Init /\ [][NextFlat]_vars

\* ReseedWrapper over every seed list and starting index
NextReseed ==
    \/ ReseedConstruct(SeedLists, SeedIdxs)
    \/ ReseedReset
    \/ ReseedStep

SpecReseed == Init /\ [][NextReseed]_vars

\* EmptyGoalEnv of every size, switching probability and start position
NextGoalEnv ==
    \/ EmptyGoalConstruct(Sizes, SwitchProbs, StartPositions)
    \/ EmptyGoalReset

SpecGoalEnv == Init /\ [][NextGoalEnv]_vars

----------------------------------------------------------------------------
(* Claims. *)

Called == call \in {"reset", "step"}
Image == raw.image.raw
IdsPresent == {Image[c] : c \in DOMAIN Image}

\* C1: an image whose every cell is unseen (0), empty (1) or floor (3) makes
\* observation() of the object-presence encoder return, without raising, the
\* zero vector of dimension d as the image and the mission unchanged.
C1_BackgroundEncodesToZero ==
    (variant = "SSPWrapper" /\ Called /\ IdsPresent \subseteq {0, 1, 3})
        => /\ ret.kind = "return"
           /\ ret.obs.image.type = "ssp"
           /\ ret.obs.image.v = EmptyBag
           /\ ret.obs.image.dim = d
           /\ ret.obs.mission = raw.mission

\* C1's case: a step over an image that holds unseen, empty and floor cells
\* and nothing else returned the zero vector.
C1_Witness ==
    /\ variant = "SSPWrapper"
    /\ call = "step"
    /\ IdsPresent = {0, 1, 3}
    /\ ret.kind = "return"
    /\ ret.obs.image.v = EmptyBag

\* the cells of the image that hold object id o
CellsHolding(o) == {c \in DOMAIN Image : Image[c] = o}

\* C2: the image returned by the object-presence encoder is the sum of exactly
\* one bound term for every object id present other than 0, 1 and 3: the term
\* of id o binds o's own vocabulary vector with the normalised sum of the table
\* pointers of exactly the cells that hold o, each taken once, and there is no
\* other term.
C2_OneTermPerObjectId ==
    (variant = "SSPWrapper" /\ Called)
        => /\ ret.kind = "return"
           /\ ret.obs.image.type = "ssp"
           /\ LET M == ret.obs.image.v
                  ids == IdsPresent \ {0, 1, 3}
              IN  /\ BagCardinality(M) = Cardinality(ids)
                  /\ {t.sym : t \in BagToSet(M)} = {<<"OBJECT", o>> : o \in ids}
                  /\ \A t \in BagToSet(M) :
                        LET cells == CellsHolding(t.sym[2])
                            S == t.S.normalized
                        IN  /\ CopiesIn(t, M) = 1
                            /\ BagToSet(S) = {S_list_rec[c] : c \in cells}
                            /\ BagCardinality(S) = Cardinality(cells)
                            /\ \A e \in BagToSet(S) :
                                  CopiesIn(e, S) =
                                      Cardinality({c \in cells : S_list_rec[c] = e})

\* C2's case: an image with two encoded ids, one of them in two cells, and a
\* floor cell or an empty cell beside them or not; two terms came back.
C2_Witness ==
    /\ variant = "SSPWrapper"
    /\ Called
    /\ \E o \in IdsPresent \ {0, 1, 3} : Cardinality(CellsHolding(o)) = 2
    /\ Cardinality(IdsPresent \ {0, 1, 3}) = 2
    /\ ret.kind = "return"
    /\ BagCardinality(ret.obs.image.v) = 2

\* C6: for one position+heading encoder, an observation() made with the agent
\* position and heading of any earlier observation() returns the image that
\* one returned, whatever the raw images and the calls between them, and it
\* returns the mission it was given.
C6_PoseDeterminesImage ==
    (variant = "SSPWrapper2" /\ Called /\ ret.kind = "return")
        => /\ ret.obs.mission = raw.mission
           /\ ret.obs.image.type = "ssp"
           /\ (first.set /\ first.pos = agent_pos /\ first.dir = agent_dir)
                  => ret.obs.image = first.image

\* C6's case: a later call at the remembered pose, over another raw image.
C6_Witness ==
    /\ variant = "SSPWrapper2"
    /\ call = "step"
    /\ ret.kind = "return"
    /\ first.set
    /\ first.pos = agent_pos
    /\ first.dir = agent_dir
    /\ first.raw # Image
    /\ ret.obs.image = first.image

\* C9: once the encoder is constructed, no reset() or step() changes the
\* reconstruction table, the vocabulary or either basis vector.
C9_TableVocabBasisReadOnly ==
    [][phase = "ready" =>
          /\ S_list_rec' = S_list_rec
          /\ vocab' = vocab
          /\ X' = X
          /\ Y' = Y]_vars

\* C9's case: the object-presence encoder has encoded an image that made it
\* read the table, and the table is still the one construction produced.
C9_Witness ==
    /\ variant = "SSPWrapper"
    /\ call = "step"
    /\ ret.kind = "return"
    /\ ret.obs.image.v # EmptyBag
    /\ S_list_rec = Table(img_shape, delta)

\* the basis vectors have the encoder's dimension
WellConfigured == X.dim = d /\ Y.dim = d

\* C3: for every encoder variant, what each reset() and each step() returns
\* carries the encoder's output in place of the raw image, and for the
\* goal-similarity variant it carries goal_similarity as well.
C3_EveryCallReturnsEncoding ==
    (Called /\ WellConfigured /\ ret.kind = "return")
        => /\ ret.obs.image.type = "ssp"
           /\ variant = "SSPGoalWrapper" => ret.obs.goal_similarity.present

\* the goal cells of the environment's grid
Goals == GoalCells(width, height, grid)

\* C4: over a static grid with exactly one goal, at cell (gx, gy), the cached
\* goal coordinate is (gx, gy) after the first reset() and after every later
\* reset() and step().
C4_CachedGoalIsGoalCell ==
    (variant = "SSPGoalWrapper" /\ Called /\ Cardinality(Goals) = 1)
        => \E g \in Goals : goal_position = PyTuple(<<g[1], g[2]>>)

\* C5: over a grid without a goal, reset() of the goal-similarity encoder does
\* not return normally, and no step() returns a goal_similarity.
C5_NoGoalFailsAtReset ==
    (variant = "SSPGoalWrapper" /\ Goals = {})
        => /\ call = "reset" => ret.kind = "raise"
           /\ call = "step" => ~(ret.kind = "return" /\ ret.obs.goal_similarity.present)

\* C8: no encoder comes out of a constructor given basis vectors whose
\* dimension differs from d or from each other, and with it no vocabulary, no
\* observation space and no table.
C8_BadConfigurationRejected ==
    phase = "ready"
        => /\ X.dim = d
           /\ Y.dim = d
           /\ vocab.dim = observation_space.dim

\* the width of an extent, in the samples' unit
Span(e) == e[2] - e[1]

\* C10: for every delta, the offsets summed into the smoothing pointer span a
\* band of width delta along x and along y.
C10_BandSpansDelta ==
    band # <<>>
        => /\ Span(band[1]) = (LinspaceNum - 1) * delta
           /\ Span(band[2]) = (LinspaceNum - 1) * delta

\* the mission part of a returned array
MissionPart(arr) == SubSeq(arr, Len(flat_call.image) + 1, Len(arr))

\* C11, first half: the mission part of every array observation() returns is
\* the one-hot encoding of that call's mission computed from nothing
FlatMissionPartIsFresh ==
    flat_call.ret.kind = "return"
        => MissionPart(flat_call.ret.arr)
               = Flatten(EncodeMission(flat_call.mission, maxStrLen).strArray)

\* C11: FlatObsWrapper.observation returns the encoding of the call's mission,
\* and computes the encoding anew only when the mission differs from the
\* mission of the previous call
C11_SingleSlotMissionCache ==
    /\ FlatMissionPartIsFresh
    /\ flat_call.recomputed => ~flat_call.repeated

\* the constructor's arguments meet the claim's condition
SeedsInRange == Len(seeds) > 0 /\ start_idx \in 0 .. Len(seeds) - 1

\* the seed list is consumed round robin up to the resets made so far
RoundRobin ==
    /\ seed_idx \in 0 .. Len(seeds) - 1
    /\ \A k \in 0 .. Len(episode_seeds) - 1 :
           episode_seeds[k + 1] = Index(seeds, (start_idx + k) % Len(seeds))
    /\ Len(episode_seeds) > 0 => env_seed = PyTuple(<<episode_seeds[Len(episode_seeds)]>>)

\* C12: with a non-empty seed list and a starting index in range, the k-th
\* reset seeds the environment with seeds[(i + k) mod len(seeds)] before it
\* resets it, seed_idx stays within 0 .. len(seeds) - 1, and step leaves
\* seed_idx alone
C12_ReseedRoundRobin ==
    /\ [](reseed_phase = "ready" /\ SeedsInRange => RoundRobin)
    /\ [][reseed_call'.op = "step" => seed_idx' = seed_idx]_vars

\* the list of three seeds was run through once and the index wrapped around,
\* with a step taken since
C12_Witness ==
    /\ reseed_phase = "ready"
    /\ SeedsInRange
    /\ Len(seeds) = 3
    /\ Len(episode_seeds) = 4
    /\ start_idx = 1
    /\ seed_idx = 2
    /\ reseed_call.op = "step"

\* C13: once EmptyGoalEnv is constructed, and after every reset, the grid's
\* only goal is at (goal_loc_x, goal_loc_y), that cell lies inside the wall
\* border, it is the last entry of goal_locs, and without SSPs the mission is
\* that location
C13_GoalAtRecordedLocation ==
    env_phase = "ready" =>
        /\ GoalCells(size, size, env_grid) = {<<goal_loc_x, goal_loc_y>>}
        /\ 1 <= goal_loc_x /\ goal_loc_x <= size - 2
        /\ 1 <= goal_loc_y /\ goal_loc_y <= size - 2
        /\ goal_locs # <<>>
        /\ goal_locs[Len(goal_locs)] = <<goal_loc_x, goal_loc_y>>
        /\ ~use_ssp => env_mission = [kind |-> "array", v |-> <<goal_loc_x, goal_loc_y>>]

\* a reset has moved the goal to another cell
C13_Witness ==
    /\ env_phase = "ready"
    /\ env_call = "reset"
    /\ ~use_ssp
    /\ Len(goal_locs) >= 2
    /\ goal_locs[1] # <<goal_loc_x, goal_loc_y>>
    /\ env_grid[GridIndex(size, goal_loc_x, goal_loc_y) + 1] = "Goal"

====
